---------------------------- MODULE Spec2Model ----------------------------
(***************************************************************************)
(* Model of src/source/fs.cpp (CTRXplorer filesystem utilities).           *)
(*                                                                         *)
(* Part 1 (specification Spec): fsDataProvider, the windowed stream        *)
(* provider.  One call of fsDataProvider is followed step by step: the     *)
(* precondition checks, the acquisition of the handle and the buffer, and  *)
(* then one action per branch of the while loop.  The callbacks onLoop and *)
(* onUpdate belong to the caller: their effect (the new offset, the        *)
(* boolean they return) is an input of the step that invokes them.         *)
(*                                                                         *)
(* u32 arithmetic is kept modulo U32_MAX + 1.  TLC's integers are 32 bit   *)
(* signed, so the width is scaled down: U32_MAX stands for 0xFFFFFFFF, the *)
(* value of (u32) -1, and every u32 sum or difference of the code is       *)
(* reduced with U32.                                                       *)
(***************************************************************************)
EXTENDS Integers, Sequences, FiniteSets, TLC

VARIABLES
    \* ---- fsDataProvider: arguments and environment
    pathKind,     \* what `path` names: "file", "dir" or "none"
    file,         \* the bytes of the file, a function on 0..fileLen-1
    haveLoop,     \* onLoop != NULL
    haveUpdate,   \* onUpdate != NULL
    buffSize,     \* the argument buffSize (W)
    \* ---- fsDataProvider: locals
    pc,           \* "entry", "loop", "cleanup", "returned"
    offset,       \* the argument offset, rewritten by onLoop and by the clamp
    offsetPrev,
    fileSize,
    buffer,       \* the calloc'ed buffer, a function on 0..buffSize-1
    fp,           \* "null", "open", "closed"
    mem,          \* "null", "alloc", "freed"
    result,
    ret,          \* the value returned, once pc = "returned"
    err,          \* errno as set by fsDataProvider ("none" if untouched)
    \* ---- fsDataProvider: observation of the run
    opens,        \* successful fopen calls so far (the probe of fsExists included)
    streamOpens,  \* successful fopen calls of line 127
    closes,       \* fclose calls so far
    allocs,       \* successful calloc calls so far
    frees,        \* free calls so far
    lastStep,     \* the branch the last step took
    lastCb,       \* the callback the last step invoked: "none", "onLoop", "onUpdate"
    lastRead,     \* TRUE iff the last step called fread
    cbTrue,       \* a callback has returned true
    filled,       \* onUpdate has been handed a buffer
    seekedOver,   \* the offset now in force was set by the clamp, not by onLoop
    phase,        \* progress of the run along the pattern 0 -> k -> 0
    firstWin,     \* the first window delivered, when it was delivered at offset 0
    seek,         \* the offset onLoop last left and the iterations run since
    \* ---- the recursive operations: the filesystem and the environment
    fs,           \* canonical path of each node |-> [dir, size]
    fs0,          \* the filesystem before the operation
    dirMode,      \* readdir: "nodots", "dotsfirst" or "dotslast"
    dirRev,       \* readdir yields its entries in reverse order
    errno,
    prevProgress, \* the static prevProgress of fsShowProgress
    \* ---- the recursive operations: the call made and what it did
    call,         \* [op, path, dest, showProgress, failAt, cancelAt, size, content]
    fret,         \* the value the call returned
    rej,          \* <<errno, path, dest>> of the guard that rejected, or <<>>
    reports,      \* the percentages fsShowProgress displayed during the call
    written,      \* the bytes the copy loop wrote (pos when it was left)
    ioFailed,     \* a library call failed during the call
    libCalls,     \* the library calls the call made
    afterFail,    \* a library call was made after one had failed
    ticks,        \* the calls of fsShowProgress the call made
    cancelled,    \* a call of fsShowProgress found button B pressed
    lateWrite,    \* fwrite was called after B had been found pressed
    fileBytes,    \* the bytes fsCreateDummyFile wrote to its file
    sizeRet,      \* the value fsGetFileSize returned
    listing,      \* the vector fsGetDirectoryContentsEx returned
    calls         \* the calls made since the program started

streamVars == <<pathKind, file, haveLoop, haveUpdate, buffSize, pc, offset,
                offsetPrev, fileSize, buffer, fp, mem, result, ret, err,
                opens, streamOpens, closes, allocs, frees, lastStep, lastCb,
                lastRead, cbTrue, filled, seekedOver, phase, firstWin, seek>>

fsVars == <<fs, fs0, dirMode, dirRev, errno, prevProgress, call, fret, rej,
            reports, written, ioFailed, libCalls, afterFail, ticks, cancelled,
            lateWrite, fileBytes, sizeRet, listing, calls>>

vars == <<streamVars, fsVars>>

---------------------------------------------------------------------------
\* Bounds of the model.

\* Stands for 0xFFFFFFFF: the largest u32, and the value of (u32) -1.
U32_MAX == 7

\* Largest window size W tried.
MaxW == 3

---------------------------------------------------------------------------
\* u32 arithmetic and the C library calls on the buffer.

U32(x) == x % (U32_MAX + 1)

Min(a, b) == IF a < b THEN a ELSE b

Max(a, b) == IF a > b THEN a ELSE b

\* The file contents tried for a file of n bytes: all bytes distinct and
\* non-zero, and a pattern with repeated and zero bytes.
Contents(n) == { [i \in 0..(n - 1) |-> i + 1],
                 [i \in 0..(n - 1) |-> (3 * i) % 4] }

FileLen == Cardinality(DOMAIN file)

\* calloc(buffSize, 1): buffSize zero bytes.
Calloc(n) == [i \in 0..(n - 1) |-> 0]

\* memmove(buf + dst, buf + src, n)
MemMove(buf, dst, src, n) ==
    [i \in DOMAIN buf |->
        IF i >= dst /\ i < dst + n THEN buf[src + (i - dst)] ELSE buf[i]]

\* memset(buf + at, 0x00, n)
MemSetZero(buf, at, n) ==
    [i \in DOMAIN buf |-> IF i >= at /\ i < at + n THEN 0 ELSE buf[i]]

\* fseek(fp, pos, SEEK_SET); fread(buf + at, 1, n, fp): the bytes of the file
\* from pos on, as many as there are up to n; the rest of buf is left as it was.
FRead(buf, at, n, pos) ==
    LET got == Min(n, Max(0, FileLen - pos))
    IN  [i \in DOMAIN buf |->
            IF i >= at /\ i < at + got THEN file[pos + (i - at)] ELSE buf[i]]

\* Line 153 without its test `dataEndPrev > offset`: the difference is taken
\* whichever way the two ends lie.
OverlapForwardUnguarded(off, prev, W) ==
    U32(U32(prev + W) - off)

\* Lines 145-146: the overlap of the new window with the previous one when
\* offset < offsetPrev.
OverlapBackward(off, prev, W) ==
    LET dataEnd == U32(off + W)
    IN  IF dataEnd > prev THEN U32(dataEnd - prev) ELSE 0

\* Lines 152-153: the overlap when offset >= offsetPrev.
OverlapForward(off, prev, W) ==
    LET dataEndPrev == U32(prev + W)
    IN  IF dataEndPrev > off THEN U32(dataEndPrev - off) ELSE 0

\* The overlap the refresh of lines 144-160 computes.
Overlap(off, prev, W) ==
    IF off < prev THEN OverlapBackward(off, prev, W)
                  ELSE OverlapForward(off, prev, W)

\* RefreshBackward without its memmove: the bytes kept from the previous
\* window are not moved to the tail.
RefreshBackwardNoMove(buf, off, prev, W) ==
    LET overlap == OverlapBackward(off, prev, W)
    IN  FRead(buf, 0, W - overlap, off)

\* Lines 144-149: offset < offsetPrev.
RefreshBackward(buf, off, prev, W) ==
    LET overlap == OverlapBackward(off, prev, W)
        moved   == MemMove(buf, W - overlap, 0, overlap)
    IN  FRead(moved, 0, W - overlap, off)

\* Lines 150-160: offset >= offsetPrev.
RefreshForward(buf, off, prev, W) ==
    LET dataEnd     == U32(off + W)
        overlap     == OverlapForward(off, prev, W)
        moved       == MemMove(buf, 0, W - overlap, overlap)
        cleared     == IF dataEnd > fileSize
                       THEN MemSetZero(moved, overlap, W - overlap)
                       ELSE moved
    IN  FRead(cleared, overlap, W - overlap, U32(off + overlap))

\* Lines 144-160.
RefreshWindow(buf, off, prev, W) ==
    IF off < prev THEN RefreshBackward(buf, off, prev, W)
                  ELSE RefreshForward(buf, off, prev, W)

---------------------------------------------------------------------------
\* fsDataProvider, lines 117-178.

\* No offset left by onLoop is waiting for its window.  While one is, seek.v
\* is that offset and seek.iters the loop iterations run since; the refresh
\* that delivers its window counts itself and clears seek.on.
NoSeek == [on |-> FALSE, v |-> 0, iters |-> 0]

Init ==
    /\ pathKind \in {"file", "dir", "none"}
    /\ \E n \in 0..U32_MAX :
          file \in (IF pathKind = "file" THEN Contents(n) ELSE {<<>>})
    /\ haveLoop \in BOOLEAN
    /\ haveUpdate \in BOOLEAN
    /\ buffSize \in 1..MaxW
    /\ offset \in 0..U32_MAX
    /\ pc = "entry"
    /\ offsetPrev = 0
    /\ fileSize = 0
    /\ buffer = <<>>
    /\ fp = "null"
    /\ mem = "null"
    /\ result = FALSE
    /\ ret = FALSE
    /\ err = "none"
    /\ opens = 0
    /\ streamOpens = 0
    /\ closes = 0
    /\ allocs = 0
    /\ frees = 0
    /\ lastStep = "none"
    /\ lastCb = "none"
    /\ lastRead = FALSE
    /\ cbTrue = FALSE
    /\ filled = FALSE
    /\ seekedOver = FALSE
    /\ phase = 0
    /\ firstWin = <<>>
    /\ seek = NoSeek
    /\ fs = <<>> /\ fs0 = <<>> /\ dirMode = "nodots" /\ dirRev = FALSE
    /\ errno = "none" /\ prevProgress = -1 /\ call = <<>> /\ fret = FALSE
    /\ rej = <<>> /\ reports = <<>> /\ written = 0 /\ ioFailed = FALSE
    /\ libCalls = 0 /\ afterFail = FALSE /\ ticks = 0 /\ cancelled = FALSE
    /\ lateWrite = FALSE /\ fileBytes = <<>> /\ sizeRet = 0 /\ listing = <<>>
    /\ calls = 0

\* The parts of the state no step of fsDataProvider changes.
ArgsUnchanged ==
    /\ UNCHANGED <<pathKind, file, haveLoop, haveUpdate, buffSize>>
    /\ UNCHANGED fsVars

\* Lines 118-121: a callback is missing.
RejectNoCallback ==
    /\ pc = "entry"
    /\ ~(haveLoop /\ haveUpdate)
    /\ pc' = "returned"
    /\ ret' = FALSE
    /\ err' = "ENOTSUP"
    /\ lastStep' = "reject"
    /\ ArgsUnchanged
    /\ UNCHANGED <<offset, offsetPrev, fileSize, buffer, fp, mem, result,
                   opens, streamOpens, closes, allocs, frees, lastCb, lastRead,
                   cbTrue, filled, seekedOver, phase, firstWin, seek>>

\* Lines 122-125 with fsExists, lines 48-56: the probe fopen(path, "r") fails
\* and so does opendir.
RejectNotFound ==
    /\ pc = "entry"
    /\ haveLoop /\ haveUpdate
    /\ pathKind = "none"
    /\ pc' = "returned"
    /\ ret' = FALSE
    /\ err' = "ENOENT"
    /\ lastStep' = "reject"
    /\ ArgsUnchanged
    /\ UNCHANGED <<offset, offsetPrev, fileSize, buffer, fp, mem, result,
                   opens, streamOpens, closes, allocs, frees, lastCb, lastRead,
                   cbTrue, filled, seekedOver, phase, firstWin, seek>>

\* Lines 122-140.  fsExists opens and closes the file once when path is a
\* plain file (lines 49-52), and answers through opendir when it is a
\* directory.  Then fopen(path, "rb") and calloc: fopenOk and callocOk are
\* their outcomes (fopen of a directory fails).  When either failed, the one
\* that succeeded is released and false is returned.
Acquire(fopenOk, callocOk) ==
    /\ pc = "entry"
    /\ haveLoop /\ haveUpdate
    /\ pathKind # "none"
    /\ (pathKind = "dir" => ~fopenOk)
    /\ LET probe == IF pathKind = "file" THEN 1 ELSE 0
           got   == IF fopenOk THEN 1 ELSE 0
           ok    == fopenOk /\ callocOk
       IN  /\ opens' = opens + probe + got
           /\ streamOpens' = streamOpens + got
           /\ allocs' = allocs + (IF callocOk THEN 1 ELSE 0)
           /\ closes' = closes + probe + (IF ~ok /\ fopenOk THEN 1 ELSE 0)
           /\ frees' = frees + (IF ~ok /\ callocOk THEN 1 ELSE 0)
           /\ fp' = IF ~fopenOk THEN "null" ELSE IF ok THEN "open" ELSE "closed"
           /\ mem' = IF ~callocOk THEN "null" ELSE IF ok THEN "alloc" ELSE "freed"
           /\ buffer' = IF ok THEN Calloc(buffSize) ELSE <<>>
           /\ pc' = IF ok THEN "loop" ELSE "returned"
           /\ lastStep' = IF ok THEN "acquire" ELSE "acquirefail"
    /\ fileSize' = FileLen
    /\ offsetPrev' = U32_MAX
    /\ result' = FALSE
    /\ ret' = FALSE
    /\ ArgsUnchanged
    /\ UNCHANGED <<offset, err, lastCb, lastRead, cbTrue, filled, seekedOver,
                   phase, firstWin, seek>>

\* Where the run stands on the pattern "first window at 0, then a window at
\* k with 0 < k < S - W, then a window at 0 again": 1, 2, 3 after the first,
\* second and third of these deliveries, 4 once the run has left the pattern.
NextPhase(off) ==
    CASE phase = 0 /\ ~filled /\ off = 0 /\ buffSize < fileSize -> 1
      [] phase = 1 /\ off > 0 /\ off < fileSize - buffSize       -> 2
      [] phase = 2 /\ off = 0                                     -> 3
      [] OTHER                                                    -> 4

\* Lines 143-164 and 171: the window is refreshed and handed to onUpdate,
\* which returns done.
Refresh(done) ==
    /\ pc = "loop"
    /\ offset # offsetPrev /\ offset <= fileSize
    /\ buffer' = RefreshWindow(buffer, offset, offsetPrev, buffSize)
    /\ offsetPrev' = offset
    /\ result' = done
    /\ pc' = IF done THEN "cleanup" ELSE "loop"
    /\ lastStep' = "refresh"
    /\ lastCb' = "onUpdate"
    /\ lastRead' = TRUE
    /\ cbTrue' = (cbTrue \/ done)
    /\ filled' = TRUE
    /\ phase' = NextPhase(offset)
    /\ firstWin' = IF filled THEN firstWin
                   ELSE IF offset = 0 THEN buffer' ELSE <<>>
    /\ seek' = IF seek.on
               THEN [on |-> FALSE, v |-> seek.v, iters |-> seek.iters + 1]
               ELSE NoSeek
    /\ ArgsUnchanged
    /\ UNCHANGED <<offset, fileSize, fp, mem, ret, err, opens, streamOpens,
                   closes, allocs, frees, seekedOver>>

\* Clamp that rewinds to the start of the file instead of its end.
ClampToStart ==
    /\ pc = "loop"
    /\ ~(offset # offsetPrev /\ offset <= fileSize)
    /\ offset > fileSize
    /\ offset' = 0
    /\ lastStep' = "clamp"
    /\ lastCb' = "none"
    /\ lastRead' = FALSE
    /\ seekedOver' = TRUE
    /\ seek' = IF seek.on THEN [seek EXCEPT !.iters = @ + 1] ELSE seek
    /\ ArgsUnchanged
    /\ UNCHANGED <<pc, offsetPrev, fileSize, buffer, fp, mem, result, ret, err,
                   opens, streamOpens, closes, allocs, frees, cbTrue, filled,
                   phase, firstWin>>

\* Lines 165-166: the offset lies past the end of the file.
Clamp ==
    /\ pc = "loop"
    /\ ~(offset # offsetPrev /\ offset <= fileSize)
    /\ offset > fileSize
    /\ offset' = fileSize
    /\ lastStep' = "clamp"
    /\ lastCb' = "none"
    /\ lastRead' = FALSE
    /\ seekedOver' = TRUE
    /\ seek' = IF seek.on THEN [seek EXCEPT !.iters = @ + 1] ELSE seek
    /\ ArgsUnchanged
    /\ UNCHANGED <<pc, offsetPrev, fileSize, buffer, fp, mem, result, ret, err,
                   opens, streamOpens, closes, allocs, frees, cbTrue, filled,
                   phase, firstWin>>

\* Loop without the break of line 171: the loop goes on after onLoop
\* returned true.
LoopNoBreak(newOffset, done) ==
    /\ pc = "loop"
    /\ ~(offset # offsetPrev /\ offset <= fileSize)
    /\ ~(offset > fileSize)
    /\ offset' = newOffset
    /\ result' = done
    /\ pc' = "loop"
    /\ lastStep' = "onLoop"
    /\ lastCb' = "onLoop"
    /\ lastRead' = FALSE
    /\ cbTrue' = (cbTrue \/ done)
    /\ seekedOver' = FALSE
    /\ seek' = IF done THEN NoSeek
               ELSE [on |-> TRUE, v |-> newOffset, iters |-> 0]
    /\ ArgsUnchanged
    /\ UNCHANGED <<offsetPrev, fileSize, buffer, fp, mem, ret, err, opens,
                   streamOpens, closes, allocs, frees, filled, phase,
                   firstWin>>

\* Lines 167-169 and 171: onLoop(offset) leaves newOffset in offset and
\* returns done.
Loop(newOffset, done) ==
    /\ pc = "loop"
    /\ ~(offset # offsetPrev /\ offset <= fileSize)
    /\ ~(offset > fileSize)
    /\ offset' = newOffset
    /\ result' = done
    /\ pc' = IF done THEN "cleanup" ELSE "loop"
    /\ lastStep' = "onLoop"
    /\ lastCb' = "onLoop"
    /\ lastRead' = FALSE
    /\ cbTrue' = (cbTrue \/ done)
    /\ seekedOver' = FALSE
    /\ seek' = IF done THEN NoSeek
               ELSE [on |-> TRUE, v |-> newOffset, iters |-> 0]
    /\ ArgsUnchanged
    /\ UNCHANGED <<offsetPrev, fileSize, buffer, fp, mem, ret, err, opens,
                   streamOpens, closes, allocs, frees, filled, phase,
                   firstWin>>

\* Line 142: core::running() answers false and the loop is left.
Stop ==
    /\ pc = "loop"
    /\ pc' = "cleanup"
    /\ lastStep' = "stop"
    /\ lastCb' = "none"
    /\ lastRead' = FALSE
    /\ ArgsUnchanged
    /\ UNCHANGED <<offset, offsetPrev, fileSize, buffer, fp, mem, result, ret,
                   err, opens, streamOpens, closes, allocs, frees, cbTrue,
                   filled, seekedOver, phase, firstWin, seek>>

\* Cleanup without the fclose of line 174.
CleanupNoClose ==
    /\ pc = "cleanup"
    /\ mem' = IF mem = "alloc" THEN "freed" ELSE mem
    /\ frees' = frees + (IF mem = "alloc" THEN 1 ELSE 0)
    /\ ret' = result
    /\ pc' = "returned"
    /\ lastStep' = "cleanup"
    /\ lastCb' = "none"
    /\ lastRead' = FALSE
    /\ ArgsUnchanged
    /\ UNCHANGED <<offset, offsetPrev, fileSize, buffer, result, err, opens,
                   streamOpens, allocs, cbTrue, filled, seekedOver, phase,
                   firstWin, fp, closes, seek>>

\* Lines 174-177.
Cleanup ==
    /\ pc = "cleanup"
    /\ fp' = IF fp = "open" THEN "closed" ELSE fp
    /\ closes' = closes + (IF fp = "open" THEN 1 ELSE 0)
    /\ mem' = IF mem = "alloc" THEN "freed" ELSE mem
    /\ frees' = frees + (IF mem = "alloc" THEN 1 ELSE 0)
    /\ ret' = result
    /\ pc' = "returned"
    /\ lastStep' = "cleanup"
    /\ lastCb' = "none"
    /\ lastRead' = FALSE
    /\ ArgsUnchanged
    /\ UNCHANGED <<offset, offsetPrev, fileSize, buffer, result, err, opens,
                   streamOpens, allocs, cbTrue, filled, seekedOver, phase,
                   firstWin, seek>>

---------------------------------------------------------------------------
(***************************************************************************)
(* Part 2 (specification SpecFs): one call of fsPathDelete, fsPathCopy,    *)
(* fsPathRename, fsCreateDummyFile, fsGetFileSize or                       *)
(* fsGetDirectoryContentsEx on a tree of directories and files.            *)
(* Specification SpecSeq follows two calls with progress shown from the    *)
(* start of the program.                                                   *)
(*                                                                         *)
(* A path is the string the code handles: a sequence of characters.  The   *)
(* filesystem maps the canonical path of each node (the sequence of the    *)
(* names leading to it; the root is the empty sequence) to its type and    *)
(* size.  The C library calls are modelled with their POSIX behaviour; a   *)
(* call on a path longer than MaxPathLen fails (ENAMETOOLONG), which is    *)
(* what ends a recursion that keeps appending to its path.                 *)
(***************************************************************************)

\* Longest path the C library accepts (PATH_MAX).
MaxPathLen == 10

Root == <<>>

DotName == <<".">>

DotDotName == <<".", ".">>

\* The names a directory entry can have, in the order readdir yields them
\* when the enumeration is not reversed.
NameOrder == << <<"a">>, <<"b">>, <<"c">>, <<"C">>, <<"B">>, <<"A">> >>

\* The components of a path string, split at every '/'.
RECURSIVE Split(_)
Split(s) ==
    IF s = <<>> THEN << <<>> >>
    ELSE LET rest == Split(Tail(s))
         IN  IF Head(s) = "/" THEN << <<>> >> \o rest
             ELSE << <<Head(s)>> \o Head(rest) >> \o Tail(rest)

IsDirNode(fsS, n) == n \in DOMAIN fsS /\ fsS[n].dir

ParentNode(n) == IF n = <<>> THEN <<>> ELSE SubSeq(n, 1, Len(n) - 1)

\* Path resolution from the root: every component but the last must lead
\* through a directory; "" and "." stay, ".." goes up.
RECURSIVE Walk(_, _, _)
Walk(fsS, comps, cur) ==
    IF comps = <<>> THEN [ok |-> TRUE, node |-> cur]
    ELSE IF ~IsDirNode(fsS, cur) THEN [ok |-> FALSE, node |-> <<>>]
    ELSE LET c == Head(comps)
         IN  IF c = <<>> \/ c = DotName THEN Walk(fsS, Tail(comps), cur)
             ELSE IF c = DotDotName THEN Walk(fsS, Tail(comps), ParentNode(cur))
             ELSE IF Append(cur, c) \in DOMAIN fsS
                  THEN Walk(fsS, Tail(comps), Append(cur, c))
                  ELSE [ok |-> FALSE, node |-> <<>>]

\* The node a path names, if it names one.
Lookup(fsS, path) ==
    IF path = <<>> \/ Len(path) > MaxPathLen THEN [ok |-> FALSE, node |-> <<>>]
    ELSE Walk(fsS, Split(path), Root)

\* Where a call that creates `path` would put the new node: the directory
\* holding it and its canonical path; not ok when the directory is missing,
\* the last component is no name, or the node is there already.
Target(fsS, path) ==
    LET comps == Split(path)
        name  == comps[Len(comps)]
        par   == Walk(fsS, SubSeq(comps, 1, Len(comps) - 1), Root)
        bad   == [ok |-> FALSE, node |-> <<>>]
    IN  IF path = <<>> \/ Len(path) > MaxPathLen THEN bad
        ELSE IF name \in {<<>>, DotName, DotDotName} THEN bad
        ELSE IF ~par.ok \/ ~IsDirNode(fsS, par.node) THEN bad
        ELSE IF Append(par.node, name) \in DOMAIN fsS THEN bad
        ELSE [ok |-> TRUE, node |-> Append(par.node, name)]

\* The nodes of the subtree rooted at n, n included.
Subtree(fsS, n) ==
    {m \in DOMAIN fsS : Len(m) >= Len(n) /\ SubSeq(m, 1, Len(n)) = n}

\* The names of the children of directory n.
Children(fsS, n) ==
    {m[Len(m)] : m \in {x \in DOMAIN fsS : Len(x) = Len(n) + 1 /\ SubSeq(x, 1, Len(n)) = n}}

\* Lines 58-66: opendir succeeds.
fsIsDirectory(fsS, path) ==
    LET r == Lookup(fsS, path) IN r.ok /\ fsS[r.node].dir

\* Lines 48-56: fopen(path, "r") succeeds (a plain file), or fsIsDirectory.
fsExists(fsS, path) ==
    LET r == Lookup(fsS, path)
    IN  (r.ok /\ ~fsS[r.node].dir) \/ fsIsDirectory(fsS, path)

\* std::string::find: needle occurs in hay.
Find(hay, needle) ==
    \E i \in 1..(Len(hay) - Len(needle) + 1) :
        SubSeq(hay, i, i + Len(needle) - 1) = needle

\* readdir: the entries of directory n in enumeration order, which POSIX
\* leaves open.  dmode says whether the stream yields "." and ".." and where;
\* rev reverses the whole enumeration, so that ".." may come before "." and
\* the dot entries after or before the names.
ReadDir(fsS, n, dmode, rev) ==
    LET kids  == Children(fsS, n)
        names == SelectSeq(NameOrder, LAMBDA x : x \in kids)
        dots  == << DotName, DotDotName >>
        fwd   == CASE dmode = "nodots"    -> names
                   [] dmode = "dotsfirst" -> dots \o names
                   [] dmode = "dotslast"  -> names \o dots
    IN  IF rev THEN [i \in 1..Len(fwd) |-> fwd[Len(fwd) + 1 - i]] ELSE fwd

\* Lines 293-313: the (path, name) pairs of the entries, none filtered out.
fsGetDirectoryContents(fsS, directory, dmode, rev) ==
    LET hasSlash     == directory # <<>> /\ directory[Len(directory)] = "/"
        dirWithSlash == IF hasSlash THEN directory ELSE directory \o <<"/">>
        d            == Lookup(fsS, dirWithSlash)
    IN  IF ~(d.ok /\ fsS[d.node].dir) THEN <<>>
        ELSE LET ents == ReadDir(fsS, d.node, dmode, rev)
             IN  [i \in 1..Len(ents) |->
                     [path |-> dirWithSlash \o ents[i], name |-> ents[i]]]

\* tolower of a character, as its ASCII code.
LowerCode(c) ==
    CASE c \in {"a", "A"} -> 97
      [] c \in {"b", "B"} -> 98
      [] c \in {"c", "C"} -> 99
      [] c = "."          -> 46
      [] c = "/"          -> 47

\* strcasecmp(x, y): the difference of the first characters that differ
\* once lowered, the end of a string counting as 0.
RECURSIVE StrCaseCmp(_, _)
StrCaseCmp(x, y) ==
    IF x = <<>> /\ y = <<>> THEN 0
    ELSE IF x = <<>> THEN 0 - LowerCode(Head(y))
    ELSE IF y = <<>> THEN LowerCode(Head(x))
    ELSE IF LowerCode(Head(x)) # LowerCode(Head(y))
         THEN LowerCode(Head(x)) - LowerCode(Head(y))
         ELSE StrCaseCmp(Tail(x), Tail(y))

\* The comparator looking at the names only.
fsAlphabetizeFoldersFilesByName(a, b) ==
    StrCaseCmp(a.name, b.name) < 0

\* Lines 22-28: a goes before b.
fsAlphabetizeFoldersFiles(a, b) ==
    IF a.isDirectory = b.isDirectory
    THEN StrCaseCmp(a.name, b.name) < 0
    ELSE a.isDirectory

\* e put into the sorted sequence s, after the entries that do not go after it.
RECURSIVE InsertSorted(_, _)
InsertSorted(s, e) ==
    IF s = <<>> THEN <<e>>
    ELSE IF fsAlphabetizeFoldersFiles(e, Head(s)) THEN <<e>> \o s
    ELSE <<Head(s)>> \o InsertSorted(Tail(s), e)

\* std::sort(result.begin(), result.end(), fsAlphabetizeFoldersFiles())
RECURSIVE SortEntries(_)
SortEntries(s) ==
    IF s = <<>> THEN <<>> ELSE InsertSorted(SortEntries(Tail(s)), Head(s))

\* Lines 315-341: the entries but "." and "..", each with its type, sorted.
fsGetDirectoryContentsEx(fsS, directory, dmode, rev) ==
    LET raw  == fsGetDirectoryContents(fsS, directory, dmode, rev)
        real == SelectSeq(raw, LAMBDA e : e.name # DotName /\ e.name # DotDotName)
    IN  SortEntries([i \in 1..Len(real) |->
            [path |-> real[i].path, name |-> real[i].name,
             isDirectory |-> fsIsDirectory(fsS, real[i].path)]])

---------------------------------------------------------------------------
\* The state an operation threads through its calls: the filesystem, errno,
\* the static prevProgress of fsShowProgress, and what is observed of the
\* run.  ret is the value the last call returned.  The inputs of an
\* operation are the choices of its environment: inp.failAt is the library
\* call that fails (0: none does), counted over malloc, fopen, fread,
\* fwrite, mkdir, remove, rmdir and rename in the order the operation makes
\* them; inp.cancelAt is the call of fsShowProgress at which button B is
\* found pressed (0: never); inp.dmode and inp.rev are the behaviour of
\* readdir; inp.garbage is what an uninitialised struct stat holds.

\* #define CTRX_BUFSIZ (4 * 1024 * 1024), scaled down to 4 bytes.
CTRX_BUFSIZ == 4

\* The number of values of a u8, 256, scaled down with CTRX_BUFSIZ so that
\* it still divides it: u8 arithmetic is kept modulo U8_RANGE, and a u16
\* content is its low byte plus U8_RANGE times its high byte.
U8_RANGE == 4

Begin(fsS, e, prev) ==
    [fs |-> fsS, errno |-> e, prev |-> prev, ret |-> TRUE, n |-> 0, k |-> 0,
     reports |-> <<>>, rej |-> <<>>, ioFailed |-> FALSE, written |-> 0,
     afterFail |-> FALSE, cancelled |-> FALSE, lateWrite |-> FALSE, out |-> <<>>]

\* The next library call is the one that fails.
Injected(st, inp) == st.n + 1 = inp.failAt

\* A library call that fails with errno e.
LibFail(st, e) ==
    [st EXCEPT !.n = @ + 1, !.errno = e, !.ret = FALSE, !.ioFailed = TRUE,
               !.afterFail = @ \/ st.ioFailed]

\* A library call that succeeds and leaves the filesystem as newFs.
LibOk(st, newFs) ==
    [st EXCEPT !.n = @ + 1, !.fs = newFs, !.ret = TRUE,
               !.afterFail = @ \/ st.ioFailed]

Without(fsS, nodes) == [m \in (DOMAIN fsS) \ nodes |-> fsS[m]]

LastComp(path) == LET comps == Split(path) IN comps[Len(comps)]

\* remove(path) on something that is no directory: unlink.
LibRemove(st, inp, path) ==
    LET r == Lookup(st.fs, path)
    IN  IF Injected(st, inp) THEN LibFail(st, "EIO")
        ELSE IF Len(path) > MaxPathLen THEN LibFail(st, "ENAMETOOLONG")
        ELSE IF ~r.ok THEN LibFail(st, "ENOENT")
        ELSE IF st.fs[r.node].dir THEN LibFail(st, "EISDIR")
        ELSE LibOk(st, Without(st.fs, {r.node}))

\* rmdir(path): only an empty directory, named by a real name, goes.
LibRmdir(st, inp, path) ==
    LET r == Lookup(st.fs, path)
    IN  IF Injected(st, inp) THEN LibFail(st, "EIO")
        ELSE IF Len(path) > MaxPathLen THEN LibFail(st, "ENAMETOOLONG")
        ELSE IF ~r.ok THEN LibFail(st, "ENOENT")
        ELSE IF ~st.fs[r.node].dir THEN LibFail(st, "ENOTDIR")
        ELSE IF LastComp(path) \in {DotName, DotDotName} THEN LibFail(st, "EINVAL")
        ELSE IF r.node = Root THEN LibFail(st, "EBUSY")
        ELSE IF Children(st.fs, r.node) # {} THEN LibFail(st, "ENOTEMPTY")
        ELSE LibOk(st, Without(st.fs, {r.node}))

\* mkdir(path, 0777)
LibMkdir(st, inp, path) ==
    LET t == Target(st.fs, path)
    IN  IF Injected(st, inp) THEN LibFail(st, "EIO")
        ELSE IF Len(path) > MaxPathLen THEN LibFail(st, "ENAMETOOLONG")
        ELSE IF Lookup(st.fs, path).ok THEN LibFail(st, "EEXIST")
        ELSE IF ~t.ok THEN LibFail(st, "ENOENT")
        ELSE LibOk(st, st.fs @@ (t.node :> [dir |-> TRUE, size |-> 0]))

\* malloc(n)
LibMalloc(st, inp) ==
    IF Injected(st, inp) THEN LibFail(st, "ENOMEM") ELSE LibOk(st, st.fs)

\* fopen(path, "rb")
LibFopenRead(st, inp, path) ==
    LET r == Lookup(st.fs, path)
    IN  IF Injected(st, inp) THEN LibFail(st, "EIO")
        ELSE IF ~r.ok THEN LibFail(st, "ENOENT")
        ELSE IF st.fs[r.node].dir THEN LibFail(st, "EISDIR")
        ELSE LibOk(st, st.fs)

\* fopen(path, "wb"): the file is created, or truncated when it is there.
LibFopenWrite(st, inp, path) ==
    LET r == Lookup(st.fs, path)
        t == Target(st.fs, path)
    IN  IF Injected(st, inp) THEN LibFail(st, "EIO")
        ELSE IF r.ok /\ st.fs[r.node].dir THEN LibFail(st, "EISDIR")
        ELSE IF r.ok THEN LibOk(st, [st.fs EXCEPT ![r.node].size = 0])
        ELSE IF ~t.ok THEN LibFail(st, "ENOENT")
        ELSE LibOk(st, st.fs @@ (t.node :> [dir |-> FALSE, size |-> 0]))

\* rename(path, dest), the atomic primitive: the subtree moves.
LibRename(st, inp, path, dest) ==
    LET s == Lookup(st.fs, path)
        t == Target(st.fs, dest)
        moved == Subtree(st.fs, s.node)
        Moved(m) == t.node \o SubSeq(m, Len(s.node) + 1, Len(m))
        kept  == Without(st.fs, moved)
    IN  IF Injected(st, inp) THEN LibFail(st, "EIO")
        ELSE IF ~s.ok THEN LibFail(st, "ENOENT")
        ELSE IF s.node = Root THEN LibFail(st, "EBUSY")
        ELSE IF LastComp(path) \in {DotName, DotDotName} THEN LibFail(st, "EINVAL")
        ELSE IF ~t.ok THEN LibFail(st, "ENOENT")
        ELSE IF t.node \in moved THEN LibFail(st, "EINVAL")
        ELSE LibOk(st, [m \in (DOMAIN kept) \cup {Moved(x) : x \in moved} |->
                          IF m \in DOMAIN kept THEN kept[m]
                          ELSE st.fs[s.node \o SubSeq(m, Len(t.node) + 1, Len(m))]])

\* A guard of the code rejects the call on (path, dest) with errno e.
Reject(st, e, path, dest) ==
    [st EXCEPT !.errno = e, !.ret = FALSE, !.rej = <<e, path, dest>>]

\* Lines 30-40.  -1 stands for the initial (u32) -1 of prevProgress, which
\* no percentage equals.  ret is the value returned: B is not pressed.
fsShowProgress(st, inp, pos, total) ==
    LET progress == (pos * 100) \div total
        show     == st.prev # progress
    IN  [st EXCEPT !.prev = IF show THEN progress ELSE @,
                   !.reports = IF show THEN Append(@, progress) ELSE @,
                   !.k = @ + 1,
                   !.cancelled = @ \/ (st.k + 1 = inp.cancelAt),
                   !.ret = (st.k + 1 # inp.cancelAt)]

\* Lines 111-115: stat, whose result is not looked at, then (u32) st.st_size:
\* the size of what path names, and whatever st held when stat failed.
fsGetFileSize(fsS, path, garbage) ==
    LET r == Lookup(fsS, path)
    IN  IF r.ok THEN U32(fsS[r.node].size) ELSE garbage

RECURSIVE fsPathDelete(_, _, _)
RECURSIVE DeleteEach(_, _, _, _)

\* The loop over contents going on with the next entry after a failure,
\* which it still reports at the end.
DeleteEachKeepGoing(st, inp, contents, i) ==
    IF i > Len(contents) THEN [st EXCEPT !.ret = TRUE]
    ELSE LET r    == fsPathDelete(st, inp, contents[i].path)
             rest == DeleteEach(r, inp, contents, i + 1)
         IN  IF ~r.ret THEN [rest EXCEPT !.ret = FALSE] ELSE rest

\* fsPathDelete returning true once the children are gone, whatever rmdir
\* answered.
fsPathDeleteRmdirUnchecked(st, inp, path) ==
    IF fsIsDirectory(st.fs, path)
    THEN LET contents == fsGetDirectoryContents(st.fs, path, inp.dmode, inp.rev)
             done     == DeleteEach(st, inp, contents, 1)
         IN  IF ~done.ret THEN done
             ELSE [LibRmdir(done, inp, path) EXCEPT !.ret = TRUE]
    ELSE LibRemove(st, inp, path)

\* Lines 180-187.
fsPathDelete(st, inp, path) ==
    IF fsIsDirectory(st.fs, path)
    THEN LET contents == fsGetDirectoryContents(st.fs, path, inp.dmode, inp.rev)
             done     == DeleteEach(st, inp, contents, 1)
         IN  IF ~done.ret THEN done ELSE LibRmdir(done, inp, path)
    ELSE LibRemove(st, inp, path)

\* Lines 183-184: the loop over contents, left at the first failure.
DeleteEach(st, inp, contents, i) ==
    IF i > Len(contents) THEN [st EXCEPT !.ret = TRUE]
    ELSE LET r == fsPathDelete(st, inp, contents[i].path)
         IN  IF ~r.ret THEN r ELSE DeleteEach(r, inp, contents, i + 1)

\* Lines 220-230: the copy loop.  rpos is the read position in the source,
\* pos the bytes written so far.
RECURSIVE CopyLoop(_, _, _, _, _, _, _, _, _)
CopyLoop(st, inp, src, dst, l_bufsiz, total, rpos, pos, show) ==
    LET size == IF Injected(st, inp) THEN 0
                ELSE Min(l_bufsiz, Max(0, st.fs[src].size - rpos))
        st1  == IF Injected(st, inp) THEN [LibFail(st, "EIO") EXCEPT !.ret = st.ret]
                ELSE [st EXCEPT !.n = @ + 1, !.afterFail = @ \/ st.ioFailed]
        wr   == IF Injected(st1, inp) THEN 0 ELSE size
        st2  == IF Injected(st1, inp)
                THEN [LibFail(st1, "EIO") EXCEPT !.ret = st.ret,
                                                 !.lateWrite = @ \/ st.cancelled]
                ELSE [st1 EXCEPT !.n = @ + 1, !.fs[dst].size = @ + wr,
                                 !.afterFail = @ \/ st1.ioFailed,
                                 !.lateWrite = @ \/ st.cancelled]
        pos2 == pos + wr
        t    == fsShowProgress(st2, inp, pos2, total)
    IN  IF size = 0
        THEN [st1 EXCEPT !.ret = (pos = total), !.written = pos]
        ELSE IF show /\ ~t.ret
        THEN [t EXCEPT !.errno = "ECANCELED", !.ret = FALSE, !.written = pos2]
        ELSE CopyLoop(IF show THEN t ELSE st2, inp, src, dst, l_bufsiz, total,
                      rpos + size, pos2, show)

\* Lines 213-235: the copy of something that is no directory.  ret starts
\* true and is only rewritten inside the block guarded by line 219.
CopyFile(st, inp, path, dest, show) ==
    LET total    == fsGetFileSize(st.fs, path, inp.garbage)
        l_bufsiz == IF total < CTRX_BUFSIZ THEN total ELSE CTRX_BUFSIZ
        buf      == LibMalloc(st, inp)
        fp1      == LibFopenRead(buf, inp, path)
        fd1      == LibFopenWrite(fp1, inp, dest)
    IN  IF fp1.ret /\ fd1.ret /\ buf.ret
        THEN CopyLoop(fd1, inp, Lookup(fd1.fs, path).node,
                      Lookup(fd1.fs, dest).node, l_bufsiz, total, 0, 0, show)
        ELSE [fd1 EXCEPT !.ret = TRUE]

\* Lines 189-237.
RECURSIVE fsPathCopy(_, _, _, _, _)
RECURSIVE CopyEach(_, _, _, _, _, _)
fsPathCopy(st, inp, path, dest, showProgress) ==
    IF fsExists(st.fs, dest) THEN Reject(st, "EEXIST", path, dest)
    ELSE LET t1 == IF showProgress THEN fsShowProgress(st, inp, 0, 1) ELSE st
         IN  IF showProgress /\ ~t1.ret THEN Reject(t1, "ECANCELED", path, dest)
             ELSE IF fsIsDirectory(t1.fs, path)
             THEN IF Find(dest, path \o <<"/">>)
                  THEN Reject(t1, "ENOTSUP", path, dest)
                  ELSE LET m  == LibMkdir(t1, inp, dest)
                           t2 == IF showProgress THEN fsShowProgress(m, inp, 1, 2) ELSE m
                       IN  IF ~m.ret THEN m
                           ELSE IF showProgress /\ ~t2.ret
                           THEN Reject(t2, "ECANCELED", path, dest)
                           ELSE CopyEach(t2, inp,
                                    fsGetDirectoryContents(t2.fs, path, inp.dmode, inp.rev),
                                    dest, showProgress, 1)
             ELSE CopyFile(t1, inp, path, dest, showProgress)

\* Lines 209-211: the loop over contents, left at the first failure.
CopyEach(st, inp, contents, dest, showProgress, i) ==
    IF i > Len(contents) THEN [st EXCEPT !.ret = TRUE]
    ELSE LET r == fsPathCopy(st, inp, contents[i].path,
                             dest \o <<"/">> \o contents[i].name, showProgress)
         IN  IF ~r.ret THEN r
             ELSE CopyEach(r, inp, contents, dest, showProgress, i + 1)

\* fsPathRename with its guards in the order of fsPathCopy.
fsPathRenameExistsFirst(st, inp, path, dest) ==
    IF fsExists(st.fs, dest) THEN Reject(st, "EEXIST", path, dest)
    ELSE IF Find(dest, path \o <<"/">>) THEN Reject(st, "ENOTSUP", path, dest)
    ELSE LibRename(st, inp, path, dest)

\* Lines 239-249.
fsPathRename(st, inp, path, dest) ==
    IF Find(dest, path \o <<"/">>) THEN Reject(st, "ENOTSUP", path, dest)
    ELSE IF fsExists(st.fs, dest) THEN Reject(st, "EEXIST", path, dest)
    ELSE LibRename(st, inp, path, dest)

\* content & 0xFF
LowByte(content) == content % U8_RANGE

\* (content >> 8) & 0xFF
HighByte(content) == (content \div U8_RANGE) % U8_RANGE

\* Lines 271-276: the buffer of l_bufsiz bytes, a progression when the high
\* byte of content is set, the low byte of content throughout otherwise.
FillBuffer(content, l_bufsiz) ==
    [count \in 1..l_bufsiz |->
        IF HighByte(content) # 0
        THEN (LowByte(content) + (count - 1) * HighByte(content)) % U8_RANGE
        ELSE LowByte(content)]

RECURSIVE DummyLoop(_, _, _, _, _, _, _, _, _)

\* The loop of fsCreateDummyFile writing the whole buffer every time, the
\* last time included.
DummyLoopNoTruncate(st, inp, dst, buf, l_bufsiz, size, count, pos, show) ==
    LET wr   == IF Injected(st, inp) THEN 0 ELSE l_bufsiz
        st1  == IF Injected(st, inp)
                THEN [LibFail(st, "EIO") EXCEPT !.ret = st.ret,
                                                !.lateWrite = @ \/ st.cancelled]
                ELSE [st EXCEPT !.n = @ + 1, !.fs[dst].size = @ + wr,
                                !.out = @ \o SubSeq(buf, 1, wr),
                                !.afterFail = @ \/ st.ioFailed,
                                !.lateWrite = @ \/ st.cancelled]
        pos2 == pos + wr
        t    == fsShowProgress(st1, inp, pos2, size)
    IN  IF ~(count < size)
        THEN [st EXCEPT !.ret = (pos = size), !.written = pos]
        ELSE IF show /\ ~t.ret
        THEN [t EXCEPT !.errno = "ECANCELED", !.ret = (pos2 = size),
                       !.written = pos2]
        ELSE DummyLoop(IF show THEN t ELSE st1, inp, dst, buf, l_bufsiz, size,
                       count + l_bufsiz, pos2, show)

\* Lines 277-286: the loop writing the buffer until size bytes are out, the
\* last chunk cut to what remains; a fwrite that fails writes nothing.  The
\* loop is left when B is found pressed, and ret is pos == size either way.
DummyLoop(st, inp, dst, buf, l_bufsiz, size, count, pos, show) ==
    LET l2   == IF size - count < l_bufsiz THEN size - count ELSE l_bufsiz
        wr   == IF Injected(st, inp) THEN 0 ELSE l2
        st1  == IF Injected(st, inp)
                THEN [LibFail(st, "EIO") EXCEPT !.ret = st.ret,
                                                !.lateWrite = @ \/ st.cancelled]
                ELSE [st EXCEPT !.n = @ + 1, !.fs[dst].size = @ + wr,
                                !.out = @ \o SubSeq(buf, 1, wr),
                                !.afterFail = @ \/ st.ioFailed,
                                !.lateWrite = @ \/ st.cancelled]
        pos2 == pos + wr
        t    == fsShowProgress(st1, inp, pos2, size)
    IN  IF ~(count < size)
        THEN [st EXCEPT !.ret = (pos = size), !.written = pos]
        ELSE IF show /\ ~t.ret
        THEN [t EXCEPT !.errno = "ECANCELED", !.ret = (pos2 = size),
                       !.written = pos2]
        ELSE DummyLoop(IF show THEN t ELSE st1, inp, dst, buf, l2, size,
                       count + l2, pos2, show)

\* Lines 259-291.  The value of the first fsShowProgress is not looked at;
\* ret starts false.
fsCreateDummyFile(st, inp, path, size, content, showProgress) ==
    IF fsExists(st.fs, path) THEN Reject(st, "EEXIST", path, <<>>)
    ELSE LET show     == showProgress /\ ~(size < CTRX_BUFSIZ)
             t0       == IF show
                         THEN [fsShowProgress(st, inp, 0, 1) EXCEPT !.ret = st.ret]
                         ELSE st
             l_bufsiz == IF size < CTRX_BUFSIZ THEN size ELSE CTRX_BUFSIZ
             buf      == LibMalloc(t0, inp)
             fp1      == LibFopenWrite(buf, inp, path)
         IN  IF fp1.ret /\ buf.ret
             THEN DummyLoop(fp1, inp, Lookup(fp1.fs, path).node,
                            FillBuffer(content, l_bufsiz), l_bufsiz, size, 0, 0,
                            show)
             ELSE [fp1 EXCEPT !.ret = FALSE]

---------------------------------------------------------------------------
\* The filesystems and paths tried.

NmA == <<"a">>

NmB == <<"b">>

NmC == <<"c">>

UpA == <<"A">>

UpB == <<"B">>

UpC == <<"C">>

DirNode == [dir |-> TRUE, size |-> 0]

FileNode(n) == [dir |-> FALSE, size |-> n]

Trees ==
    { (Root :> DirNode) @@ (<<NmA>> :> DirNode) @@ (<<NmA, NmB>> :> FileNode(5))
        @@ (<<NmA, NmC>> :> DirNode) @@ (<<NmA, NmC, NmA>> :> FileNode(0))
        @@ (<<NmB>> :> DirNode) @@ (<<NmC>> :> FileNode(3)),
      (Root :> DirNode) @@ (<<NmA>> :> DirNode) @@ (<<NmB>> :> DirNode)
        @@ (<<NmB, NmA>> :> DirNode) @@ (<<NmB, NmA, NmB>> :> FileNode(7))
        @@ (<<NmB, NmC>> :> FileNode(2)),
      (Root :> DirNode) @@ (<<NmA>> :> FileNode(5)) @@ (<<NmB>> :> DirNode)
        @@ (<<NmB, NmC>> :> FileNode(4)),
      (Root :> DirNode) @@ (<<NmA>> :> DirNode) @@ (<<NmA, NmA>> :> FileNode(1))
        @@ (<<NmA, NmB>> :> FileNode(6)) @@ (<<NmC>> :> DirNode)
        @@ (<<NmC, NmA>> :> DirNode),
      (Root :> DirNode) @@ (<<NmC>> :> DirNode) @@ (<<NmA>> :> FileNode(2))
        @@ (<<UpB>> :> DirNode) @@ (<<UpA>> :> FileNode(1))
        @@ (<<NmC, UpC>> :> FileNode(0)) @@ (<<NmC, NmB>> :> FileNode(3))
        @@ (<<NmC, UpA>> :> DirNode) @@ (<<NmC, NmA>> :> FileNode(1)) }

Paths ==
    { <<"/", "a">>, <<"/", "b">>, <<"/", "c">>,
      <<"/", "a", "/", "b">>, <<"/", "a", "/", "c">>, <<"/", "b", "/", "a">>,
      <<"/", "c", "/", "a">>, <<"/", "b", "/", "a", "/", "c">> }

\* More arguments for fsGetDirectoryContentsEx: the root, and a directory
\* named with and without the final '/'.
Dirs == { <<"/">>, <<"/", "c">>, <<"/", "c", "/">>, <<"/", "c", "/", "A">> }

\* The sizes fsCreateDummyFile is called with: nothing, less than a buffer,
\* one buffer, two buffers, and each with a remainder.
DummySizes == {0, CTRX_BUFSIZ - 1, CTRX_BUFSIZ, CTRX_BUFSIZ + 1,
               2 * CTRX_BUFSIZ, 2 * CTRX_BUFSIZ + 1}

\* The contents it is called with: two constants (high byte 0) and three
\* progressions (low byte the start, high byte the step).
DummyContents == {0, 2, U8_RANGE + 1, 2 * U8_RANGE, 3 * U8_RANGE + 2}

\* Largest index of a library call made to fail.
MaxFailAt == 4

\* Largest index of a call of fsShowProgress that finds B pressed.
MaxCancelAt == 3

\* What an uninitialised struct stat may hold as st_size.
Garbage == {0, 5}

\* What earlier operations may have left in prevProgress: nothing yet (-1),
\* or the last percentage they displayed.
PrevLeft == {-1, 0, 50, 100}

StreamIdle ==
    /\ pathKind = "none"
    /\ file = <<>>
    /\ haveLoop = FALSE
    /\ haveUpdate = FALSE
    /\ buffSize = 1
    /\ offset = 0
    /\ pc = "idle"
    /\ offsetPrev = 0
    /\ fileSize = 0
    /\ buffer = <<>>
    /\ fp = "null"
    /\ mem = "null"
    /\ result = FALSE
    /\ ret = FALSE
    /\ err = "none"
    /\ opens = 0
    /\ streamOpens = 0
    /\ closes = 0
    /\ allocs = 0
    /\ frees = 0
    /\ lastStep = "none"
    /\ lastCb = "none"
    /\ lastRead = FALSE
    /\ cbTrue = FALSE
    /\ filled = FALSE
    /\ seekedOver = FALSE
    /\ phase = 0
    /\ firstWin = <<>>
    /\ seek = NoSeek

NoCall == [op |-> "none", path |-> <<>>, dest |-> <<>>, showProgress |-> FALSE,
           failAt |-> 0, cancelAt |-> 0, size |-> 0, content |-> 0]

InitFs ==
    /\ StreamIdle
    /\ fs \in Trees
    /\ fs0 = fs
    /\ dirMode \in {"nodots", "dotsfirst", "dotslast"}
    /\ dirRev \in BOOLEAN
    /\ errno = "none"
    /\ prevProgress \in PrevLeft
    /\ call = NoCall
    /\ fret = FALSE
    /\ rej = <<>>
    /\ reports = <<>>
    /\ written = 0
    /\ ioFailed = FALSE
    /\ libCalls = 0
    /\ afterFail = FALSE
    /\ ticks = 0
    /\ cancelled = FALSE
    /\ lateWrite = FALSE
    /\ fileBytes = <<>>
    /\ sizeRet = 0
    /\ listing = <<>>
    /\ calls = 0

Inputs(failAt, cancelAt, garbage) ==
    [failAt |-> failAt, cancelAt |-> cancelAt, dmode |-> dirMode, rev |-> dirRev,
     garbage |-> garbage]

\* The call has returned r.
Returned(r, c) ==
    /\ call' = c
    /\ fs' = r.fs
    /\ errno' = r.errno
    /\ prevProgress' = r.prev
    /\ fret' = r.ret
    /\ rej' = r.rej
    /\ reports' = r.reports
    /\ written' = r.written
    /\ ioFailed' = r.ioFailed
    /\ libCalls' = r.n
    /\ afterFail' = r.afterFail
    /\ ticks' = r.k
    /\ cancelled' = r.cancelled
    /\ lateWrite' = r.lateWrite
    /\ fileBytes' = r.out
    /\ fs0' = fs
    /\ calls' = calls + 1
    /\ UNCHANGED <<dirMode, dirRev, sizeRet, listing>>
    /\ UNCHANGED streamVars

\* A call fsPathDelete(path).
CallPathDelete(path, failAt) ==
    Returned(fsPathDelete(Begin(fs, errno, prevProgress), Inputs(failAt, 0, 0), path),
             [op |-> "delete", path |-> path, dest |-> <<>>, showProgress |-> FALSE,
              failAt |-> failAt, cancelAt |-> 0, size |-> 0, content |-> 0])

\* A call fsPathCopy(path, dest, showProgress).
CallPathCopy(path, dest, showProgress, failAt, cancelAt, garbage) ==
    /\ (~showProgress => cancelAt = 0)
    /\ (Lookup(fs, path).ok => garbage = 0)
    /\ Returned(fsPathCopy(Begin(fs, errno, prevProgress),
                           Inputs(failAt, cancelAt, garbage), path, dest, showProgress),
                [op |-> "copy", path |-> path, dest |-> dest,
                 showProgress |-> showProgress, failAt |-> failAt,
                 cancelAt |-> cancelAt, size |-> 0, content |-> 0])

\* A call fsPathRename(path, dest).
CallPathRename(path, dest, failAt) ==
    Returned(fsPathRename(Begin(fs, errno, prevProgress), Inputs(failAt, 0, 0), path, dest),
             [op |-> "rename", path |-> path, dest |-> dest, showProgress |-> FALSE,
              failAt |-> failAt, cancelAt |-> 0, size |-> 0, content |-> 0])

\* A call fsCreateDummyFile(path, size, content, showProgress).
CallCreateDummyFile(path, size, content, showProgress, failAt, cancelAt) ==
    /\ (~showProgress => cancelAt = 0)
    /\ Returned(fsCreateDummyFile(Begin(fs, errno, prevProgress),
                                  Inputs(failAt, cancelAt, 0), path, size,
                                  content, showProgress),
                [op |-> "dummy", path |-> path, dest |-> <<>>,
                 showProgress |-> showProgress, failAt |-> failAt,
                 cancelAt |-> cancelAt, size |-> size, content |-> content])

\* A call fsGetFileSize(path): stat sets errno when it fails.
CallFileSize(path, garbage) ==
    /\ (Lookup(fs, path).ok => garbage = 0)
    /\ call' = [op |-> "size", path |-> path, dest |-> <<>>,
                showProgress |-> FALSE, failAt |-> 0, cancelAt |-> 0, size |-> 0, content |-> 0]
    /\ sizeRet' = fsGetFileSize(fs, path, garbage)
    /\ calls' = calls + 1
    /\ errno' = IF Lookup(fs, path).ok THEN errno ELSE "ENOENT"
    /\ UNCHANGED <<fs, fs0, dirMode, dirRev, prevProgress, fret, rej, reports,
                   written, ioFailed, libCalls, afterFail, ticks, cancelled,
                   lateWrite, fileBytes, listing>>
    /\ UNCHANGED streamVars

\* A call fsGetDirectoryContentsEx(directory).
CallDirectoryContentsEx(directory) ==
    /\ call' = [op |-> "listEx", path |-> directory, dest |-> <<>>,
                showProgress |-> FALSE, failAt |-> 0, cancelAt |-> 0, size |-> 0, content |-> 0]
    /\ listing' = fsGetDirectoryContentsEx(fs, directory, dirMode, dirRev)
    /\ calls' = calls + 1
    /\ UNCHANGED <<fs, fs0, dirMode, dirRev, errno, prevProgress, fret, rej,
                   reports, written, ioFailed, libCalls, afterFail, ticks,
                   cancelled, lateWrite, fileBytes, sizeRet>>
    /\ UNCHANGED streamVars

\* One call is followed from each initial state.
DeleteStep ==
    /\ call = NoCall
    /\ \E path \in Paths, failAt \in 0..MaxFailAt : CallPathDelete(path, failAt)

CopyStep ==
    /\ call = NoCall
    /\ \E path \in Paths, dest \in Paths, showProgress \in BOOLEAN,
          failAt \in 0..MaxFailAt, cancelAt \in 0..MaxCancelAt, garbage \in Garbage :
          CallPathCopy(path, dest, showProgress, failAt, cancelAt, garbage)

RenameStep ==
    /\ call = NoCall
    /\ \E path \in Paths, dest \in Paths, failAt \in 0..1 :
          CallPathRename(path, dest, failAt)

DummyStep ==
    /\ call = NoCall
    /\ \E path \in Paths, size \in DummySizes, content \in DummyContents,
          showProgress \in BOOLEAN, failAt \in 0..MaxFailAt,
          cancelAt \in 0..MaxCancelAt :
          CallCreateDummyFile(path, size, content, showProgress, failAt, cancelAt)

FileSizeStep ==
    /\ call = NoCall
    /\ \E path \in Paths, garbage \in Garbage : CallFileSize(path, garbage)

ListExStep ==
    /\ call = NoCall
    /\ \E directory \in Paths \cup Dirs : CallDirectoryContentsEx(directory)

NextFs ==
    DeleteStep \/ CopyStep \/ RenameStep \/ DummyStep \/ FileSizeStep \/ ListExStep

SpecFs == InitFs /\ [][NextFs]_vars

---------------------------------------------------------------------------
\* Specification SpecSeq: two calls with progress shown, one after the
\* other, from the start of the program, where the static prevProgress of
\* fsShowProgress still holds its initialiser (u32) -1.

SeqPaths == { <<"/", "a">>, <<"/", "b">>, <<"/", "c">>, <<"/", "a", "/", "c">> }

InitSeq ==
    /\ InitFs
    /\ prevProgress = -1
    /\ dirMode = "nodots"
    /\ ~dirRev

SeqCopyStep ==
    /\ calls < 2
    /\ \E path \in SeqPaths, dest \in SeqPaths, cancelAt \in 0..MaxCancelAt :
          CallPathCopy(path, dest, TRUE, 0, cancelAt, 0)

SeqDummyStep ==
    /\ calls < 2
    /\ \E path \in SeqPaths, size \in DummySizes, cancelAt \in 0..MaxCancelAt :
          CallCreateDummyFile(path, size, 0, TRUE, 0, cancelAt)

NextSeq == SeqCopyStep \/ SeqDummyStep

SpecSeq == InitSeq /\ [][NextSeq]_vars

Next ==
    \/ RejectNoCallback
    \/ RejectNotFound
    \/ \E fopenOk \in BOOLEAN, callocOk \in BOOLEAN : Acquire(fopenOk, callocOk)
    \/ \E done \in BOOLEAN : Refresh(done)
    \/ Clamp
    \/ \E newOffset \in 0..U32_MAX, done \in BOOLEAN : Loop(newOffset, done)
    \/ Stop
    \/ Cleanup

Spec == Init /\ [][Next]_vars

---------------------------------------------------------------------------
(***************************************************************************)
(* Properties of fsDataProvider (specification Spec).                      *)
(***************************************************************************)

\* The W bytes of the file spanning [O, O + W), zero at and past the end.
Expected(O) ==
    [i \in 0..(buffSize - 1) |-> IF O + i < FileLen THEN file[O + i] ELSE 0]

\* C1: every buffer handed to onUpdate holds the W bytes of the file
\* spanning [O, O + W) for the current offset O, zero at and past S.
\* (The buffer and offsetPrev only change when onUpdate is handed a buffer.)
C1_WindowInvariant ==
    filled => buffer = Expected(offsetPrev)

\* C2: with W < S, a first window at offset 0, a seek forward to k with
\* 0 < k < S - W and a seek back to 0 deliver, after the backward seek, the
\* bytes of the first window.
C2_RoundTrip ==
    phase = 3 => buffer = firstWin

\* C2: the third delivery of the pattern has been made, with an overlap
\* between the window at k and the window at 0.
C2_Witness ==
    /\ phase = 3
    /\ lastStep = "refresh"
    /\ offsetPrev = 0
    /\ buffSize >= 2
    /\ firstWin # Calloc(buffSize)

\* C3: an offset past the end of the file is set to S by the iteration
\* that sees it, which reads nothing and invokes no callback, and the
\* window then delivered for offset S is zero beyond S, that is everywhere.
C3_OverSeek ==
    /\ (pc = "loop" /\ offset > fileSize) =>
           /\ ~ENABLED (\E done \in BOOLEAN : Refresh(done))
           /\ ~ENABLED (\E newOffset \in 0..U32_MAX, done \in BOOLEAN :
                           Loop(newOffset, done))
    /\ lastStep = "clamp" => (offset = fileSize /\ ~lastRead /\ lastCb = "none")
    /\ (lastStep = "refresh" /\ seekedOver) =>
           /\ offsetPrev = fileSize
           /\ \A i \in DOMAIN buffer : buffer[i] = 0

\* C4: the value returned is true exactly when a callback returned true,
\* and once a callback has returned true no step invokes a callback or
\* reads the file.
C4_Result ==
    /\ [](pc = "returned" => (ret <=> cbTrue))
    /\ [][cbTrue => (lastCb' = "none" /\ ~lastRead')]_vars

\* C4: a call has returned true after a window was delivered.
C4_Witness ==
    pc = "returned" /\ ret /\ cbTrue /\ filled /\ lastStep = "cleanup"

---------------------------------------------------------------------------
(***************************************************************************)
(* Properties of the recursive operations (specification SpecFs).          *)
(***************************************************************************)

IsPrefix(p, s) == Len(p) <= Len(s) /\ SubSeq(s, 1, Len(p)) = p

\* The path string of a node.
RECURSIVE PathOf(_)
PathOf(n) == IF n = <<>> THEN <<>> ELSE PathOf(ParentNode(n)) \o <<"/">> \o n[Len(n)]

\* What listEx shows of the tree under path: names, types and sizes.
RECURSIVE TreeShape(_, _)
TreeShape(fsS, path) ==
    LET l == fsGetDirectoryContentsEx(fsS, path, dirMode, dirRev)
    IN  [i \in 1..Len(l) |->
            [name |-> l[i].name, isDirectory |-> l[i].isDirectory,
             size |-> IF l[i].isDirectory THEN 0 ELSE fsGetFileSize(fsS, l[i].path, 0),
             sub |-> IF l[i].isDirectory THEN TreeShape(fsS, l[i].path) ELSE <<>>]]

SrcNode == Lookup(fs0, call.path)

SrcIsFile == SrcNode.ok /\ ~fs0[SrcNode.node].dir

\* The guard (of the call itself, not of a call it makes) that rejected.
GuardOf(r, path, dest) ==
    IF r # <<>> /\ r[1] \in {"ENOTSUP", "EEXIST"} /\ r[2] = path /\ r[3] = dest
    THEN r[1] ELSE "none"

\* The guard by which fsPathCopy(path, dest, false) is rejected in fsS.
CopyGuardIn(fsS, path, dest) ==
    GuardOf(fsPathCopy(Begin(fsS, "none", -1), Inputs(0, 0, 0), path, dest, FALSE).rej,
            path, dest)

\* C6: the copy of a plain file returns true only if the bytes written to
\* dest are the size of the source.
C6_CopyFileSuccess ==
    (call.op = "copy" /\ SrcIsFile /\ fret) =>
        /\ written = fs0[SrcNode.node].size
        /\ fsGetFileSize(fs, call.dest, 0) = fs0[SrcNode.node].size

\* C7: the copy of a directory to a dest that does not exist (and that the
\* guard does not reject), with no cancellation and no failing library
\* call, returns true and leaves under dest what listEx shows under src.
C7_CopyDirPost ==
    (/\ call.op = "copy"
     /\ fsIsDirectory(fs0, call.path)
     /\ ~fsExists(fs0, call.dest)
     /\ ~Find(call.dest, call.path \o <<"/">>)
     /\ call.cancelAt = 0
     /\ ~ioFailed) =>
        /\ fret
        /\ TreeShape(fs, call.dest) = TreeShape(fs, call.path)

\* C8: for a directory src and a dest that does not exist, with no
\* cancellation, the copy fails with ENOTSUP exactly when dest starts with
\* src + "/", and then the filesystem is as before.
C8_SelfContainment ==
    (/\ call.op = "copy"
     /\ fsIsDirectory(fs0, call.path)
     /\ ~fsExists(fs0, call.dest)
     /\ call.cancelAt = 0) =>
        /\ (~fret /\ errno = "ENOTSUP") <=> IsPrefix(call.path \o <<"/">>, call.dest)
        /\ IsPrefix(call.path \o <<"/">>, call.dest) => fs = fs0

\* C9 as stated: rename is rejected by a guard with an error kind exactly
\* when copy is rejected by a guard with that kind, and a rejected rename
\* leaves the filesystem unchanged.
C9_SameGuards ==
    call.op = "rename" =>
        /\ GuardOf(rej, call.path, call.dest) = CopyGuardIn(fs0, call.path, call.dest)
        /\ GuardOf(rej, call.path, call.dest) # "none" => fs = fs0

\* C9 as amended: rename checks containment first, whatever src is, and
\* existence second; whenever copy is rejected by a guard so is rename,
\* with the same kind unless dest both exists and contains src + "/"; a
\* rejected rename returns false and leaves the filesystem unchanged.
C9_RenameGuards ==
    call.op = "rename" =>
        LET g    == GuardOf(rej, call.path, call.dest)
            cg   == CopyGuardIn(fs0, call.path, call.dest)
            cont == Find(call.dest, call.path \o <<"/">>)
            ex   == fsExists(fs0, call.dest)
        IN  /\ g = (IF cont THEN "ENOTSUP" ELSE IF ex THEN "EEXIST" ELSE "none")
            /\ cg # "none" => g # "none"
            /\ (cg # "none" /\ ~(cont /\ ex)) => g = cg
            /\ g # "none" => (fs = fs0 /\ ~fret /\ errno = g)

\* C9: a rename was rejected for containment where copy is rejected because
\* dest exists.
C9_Witness ==
    /\ call.op = "rename"
    /\ GuardOf(rej, call.path, call.dest) = "ENOTSUP"
    /\ CopyGuardIn(fs0, call.path, call.dest) = "EEXIST"

\* C10: when remove(root) returns true, no node of the tree that was
\* rooted at root exists afterwards.
C10_RemovePost ==
    (call.op = "delete" /\ fret) =>
        /\ SrcNode.ok
        /\ \A n \in Subtree(fs0, SrcNode.node) : ~fsExists(fs, PathOf(n))

\* C10: a directory holding a directory and files was removed.
C10_Witness ==
    /\ call.op = "delete"
    /\ fret
    /\ SrcNode.ok
    /\ Cardinality(Subtree(fs0, SrcNode.node)) >= 4


\* C11: when a removal fails during fsPathDelete, the call returns false, no
\* library call (no removal of a later sibling or of an enclosing directory)
\* is made after the failure, and what was removed before stays removed:
\* every successful removal took exactly one node away and nothing came
\* back.
C11_FailFast ==
    (call.op = "delete" /\ ioFailed) =>
        /\ ~fret
        /\ ~afterFail
        /\ DOMAIN fs \subseteq DOMAIN fs0
        /\ Cardinality(DOMAIN fs0) - Cardinality(DOMAIN fs) = libCalls - 1

\* C11: the removal of a later child failed after a sibling had been
\* removed, and siblings are left.
C11_Witness ==
    /\ call.op = "delete" /\ ioFailed /\ ~fret
    /\ SrcNode.ok
    /\ libCalls >= 2
    /\ Cardinality(Subtree(fs, SrcNode.node)) >= 2

\* C18: fsPathDelete(path) removes only nodes of the subtree rooted at path:
\* every node outside it is there afterwards as it was, whether or not
\* readdir yields "." and "..".
C18_RemoveFrame ==
    call.op = "delete" =>
        \A n \in DOMAIN fs0 :
            (SrcNode.ok /\ n \in Subtree(fs0, SrcNode.node))
                \/ (n \in DOMAIN fs /\ fs[n] = fs0[n])

\* The call just made, made again on the same filesystem with prevProgress
\* holding its initialiser.
FreshCall ==
    LET st  == Begin(fs0, "none", -1)
        inp == Inputs(call.failAt, call.cancelAt, 0)
    IN  IF call.op = "copy"
        THEN fsPathCopy(st, inp, call.path, call.dest, call.showProgress)
        ELSE fsCreateDummyFile(st, inp, call.path, call.size, call.content,
                               call.showProgress)

\* C12: the percentages a call of fsPathCopy or fsCreateDummyFile with
\* progress shown displays are those it displays when nothing ran before
\* it; in particular its first fsShowProgress displays.
C12_ProgressScoped ==
    (call.op \in {"copy", "dummy"} /\ call.showProgress) =>
        /\ reports = FreshCall.reports
        /\ (ticks >= 1 => Len(reports) >= 1)

\* C13: in fsPathCopy and fsCreateDummyFile, when a call of fsShowProgress
\* (the initial one, the one after mkdir, or one of the copy or write loop,
\* the last included) finds B pressed, nothing is written afterwards and
\* the call returns false.
C13_CancelFails ==
    (call.op \in {"copy", "dummy"} /\ cancelled) =>
        /\ ~fret
        /\ ~lateWrite

\* C14: fsGetFileSize(path) returns 0 for a path that names nothing (stat
\* fails) and the size of what path names otherwise.
C14_FileSizeDefault ==
    call.op = "size" =>
        sizeRet = (IF SrcNode.ok THEN fs0[SrcNode.node].size ELSE 0)

\* C15: fsCreateDummyFile on a path that names nothing, with no failing
\* library call and no cancellation, returns true and leaves a file of
\* exactly size bytes; byte i is the low byte of content when its high byte
\* is 0, and low + i * high modulo the range of a u8 otherwise, for every
\* i < size, whatever chunk it was written in.
C15_DummyContent ==
    (/\ call.op = "dummy"
     /\ ~fsExists(fs0, call.path)
     /\ ~ioFailed
     /\ ~cancelled) =>
        /\ fret
        /\ Lookup(fs, call.path).ok
        /\ fs[Lookup(fs, call.path).node] = FileNode(call.size)
        /\ written = call.size
        /\ Len(fileBytes) = call.size
        /\ \A i \in 0..(call.size - 1) :
              fileBytes[i + 1] =
                  IF HighByte(call.content) # 0
                  THEN (LowByte(call.content) + i * HighByte(call.content)) % U8_RANGE
                  ELSE LowByte(call.content)

\* C15: a progression was written in three chunks, the last one cut, with
\* progress shown.
C15_Witness ==
    /\ call.op = "dummy" /\ fret /\ ~ioFailed /\ ~cancelled
    /\ call.size = 2 * CTRX_BUFSIZ + 1
    /\ HighByte(call.content) = 3 /\ LowByte(call.content) = 2
    /\ call.showProgress
    /\ libCalls = 5
    /\ Len(fileBytes) = call.size

\* The entries of a listing, each with its name and type.
Entries == [name : {NameOrder[i] : i \in 1..Len(NameOrder)}, isDirectory : BOOLEAN]

\* C16: the vector fsGetDirectoryContentsEx returns holds each child of the
\* directory but "." and ".." exactly once, with its type; no file precedes
\* a directory; among the directories and among the files the names never
\* decrease case-insensitively; and fsAlphabetizeFoldersFiles is a strict
\* weak ordering (irreflexive, transitive, incomparability transitive).
C16_ListExOrder ==
    call.op = "listEx" =>
        /\ \A a \in Entries : ~fsAlphabetizeFoldersFiles(a, a)
        /\ \A a \in Entries, b \in Entries, c \in Entries :
              /\ (fsAlphabetizeFoldersFiles(a, b) /\ fsAlphabetizeFoldersFiles(b, c))
                    => fsAlphabetizeFoldersFiles(a, c)
              /\ (/\ ~fsAlphabetizeFoldersFiles(a, b)
                  /\ ~fsAlphabetizeFoldersFiles(b, a)
                  /\ ~fsAlphabetizeFoldersFiles(b, c)
                  /\ ~fsAlphabetizeFoldersFiles(c, b))
                    => (/\ ~fsAlphabetizeFoldersFiles(a, c)
                        /\ ~fsAlphabetizeFoldersFiles(c, a))
        /\ LET d    == Lookup(fs0, call.path)
               kids == IF d.ok /\ fs0[d.node].dir THEN Children(fs0, d.node) ELSE {}
           IN  /\ Len(listing) = Cardinality(kids)
               /\ {listing[i].name : i \in 1..Len(listing)} = kids
               /\ \A i \in 1..Len(listing) :
                     listing[i].isDirectory = fs0[Append(d.node, listing[i].name)].dir
               /\ \A i \in 1..Len(listing), j \in 1..Len(listing) :
                     i < j =>
                       /\ (listing[j].isDirectory => listing[i].isDirectory)
                       /\ (listing[i].isDirectory = listing[j].isDirectory)
                             => StrCaseCmp(listing[i].name, listing[j].name) <= 0

\* C16: a listing of directories and files whose names differ in case, from
\* a readdir that yields the dot entries.
C16_Witness ==
    /\ call.op = "listEx"
    /\ dirMode # "nodots"
    /\ Len(listing) >= 4
    /\ \E i \in 1..Len(listing), j \in 1..Len(listing) :
          /\ listing[i].isDirectory /\ ~listing[j].isDirectory
          /\ StrCaseCmp(listing[i].name, listing[j].name) > 0
    /\ \E i \in 1..Len(listing) : listing[i].name \in {UpA, UpB, UpC}

---------------------------------------------------------------------------
\* C19: in every refresh (offset differs from offsetPrev), for all u32 values
\* of offset, offsetPrev (the sentinel (u32) -1 included) and buffSize, the
\* overlap computed with wrap-around arithmetic lies in 0..buffSize, so the
\* memmove ranges and the read of buffSize - overlap bytes stay inside the
\* buffer; and so it is in every state of a run about to refresh.  (The
\* first conjunct does not depend on the state: it is evaluated where the
\* call is entered.)
C19_OverlapBounded ==
    /\ pc = "entry" =>
          \A off \in 0..U32_MAX, prev \in 0..U32_MAX, W \in 0..U32_MAX :
              off # prev =>
                  /\ Overlap(off, prev, W) >= 0
                  /\ Overlap(off, prev, W) <= W
    /\ (pc = "loop" /\ offset # offsetPrev /\ offset <= fileSize) =>
          /\ Overlap(offset, offsetPrev, buffSize) \in 0..buffSize
          /\ DOMAIN RefreshWindow(buffer, offset, offsetPrev, buffSize)
                = 0..(buffSize - 1)

\* A refresh is about to run on offsets whose window end wraps around:
\* offsetPrev + buffSize exceeds U32_MAX and the window moves forward.
C19_Witness ==
    /\ pc = "loop" /\ filled
    /\ offset > offsetPrev /\ offset <= fileSize
    /\ offsetPrev + buffSize > U32_MAX

\* C17: onLoop is never invoked before a window has been delivered: whenever
\* the last step invoked onLoop, an earlier step has refreshed the window and
\* handed it to onUpdate.
C17_FirstFills ==
    lastCb = "onLoop" => filled

\* C20: after onLoop left offset v without asking for completion, the next
\* callback is onUpdate on the window at min(v, fileSize), within at most two
\* iterations (the clamp, then the refresh), unless min(v, fileSize) is
\* offsetPrev: then onLoop is invoked again and nothing is read.  onLoop is
\* only invoked with offset = offsetPrev and offset <= fileSize.
C20_SeekResponse ==
    /\ [](pc = "loop" /\ seek.on => seek.iters <= 1)
    /\ [][ /\ (seek.on /\ lastStep' = "refresh") =>
                /\ seek.iters + 1 <= 2
                /\ lastCb' = "onUpdate"
                /\ offsetPrev' = Min(seek.v, fileSize)
                /\ Min(seek.v, fileSize) # offsetPrev
           /\ (seek.on /\ lastStep' = "clamp") =>
                /\ lastCb' = "none" /\ ~lastRead'
                /\ offset' = Min(seek.v, fileSize)
           /\ (seek.on /\ lastStep' = "onLoop") =>
                /\ Min(seek.v, fileSize) = offsetPrev
                /\ ~lastRead' /\ buffer' = buffer
           /\ (lastStep' = "onLoop") =>
                /\ offset = offsetPrev /\ offset <= fileSize
         ]_vars

\* onLoop left an offset past the end of the file, the clamp brought it back
\* and the second iteration delivered the window at fileSize.
C20_Witness ==
    /\ lastStep = "refresh" /\ ~seek.on /\ seek.iters = 2
    /\ seek.v > fileSize /\ offsetPrev = fileSize

===========================================================================
